---- MODULE Spec2Model ----
(***************************************************************************)
(* Task lifecycle of the google_adk AgentTaskManager (task_manager.py),    *)
(* its collaborators (task store, push notification sender, Agent), and    *)
(* the day-planning branch of the langgraph CalendarAgent (agent.py).      *)
(*                                                                         *)
(* Optional values (Python None / a value) are sequences of length 0 / 1.  *)
(* Text is a sequence of symbols; substring tests are real searches.       *)
(***************************************************************************)
EXTENDS Integers, Sequences, FiniteSets, TLC

\* ------------------------------------------------------------------ bounds
MaxRequests == 2      \* requests accepted over one behaviour
MaxItems == 2         \* items an Agent stream yields before it ends
MaxPad == 1           \* words around the phrase of a calendar query

\* ------------------------------------------------------------- value sets
None == <<>>
Some(v) == <<v>>

Slots == {"r1", "r2"}
\* the slot that serves requests one at a time
SeqSlots == {"r1"}
TaskIds == {"t1", "t2"}
SessionIds == {"s1", "s2"}
Urls == {"u1", "u2"}

SUPPORTED_CONTENT_TYPES == {"text", "text/plain"}

\* acceptedOutputModes a client may send
ModeSets == {{"image/png"}, {"text/plain", "image/png"}, {}}

\* pushNotification of a request: absent, or a config with a (possibly empty) url
PushConfigs == {None} \cup {Some([url |-> u]) : u \in Urls \cup {""}}

\* first part of the inbound message
TextPartOf(t) == [type |-> "text", text |-> t]
DataPartOf(d) == [type |-> "data", data |-> d]
FirstParts == {TextPartOf(<<"hello">>), DataPartOf([k |-> 1])}

MISSING_INFO == <<"MISSING_INFO", ":">>

\* strings Agent.invoke may return
AgentResults ==
  { <<>>, <<"ok">> \o MISSING_INFO \o <<"ok">>, <<":", "MISSING_INFO">> }

\* texts json.loads may be given: an object and a malformed text
JsonTexts == { <<"{", "k", ":", "1", "}">>, <<"{", "k", "}">> }

\* mappings an Agent may yield as content (function_response.model_dump())
DictContents ==
  { [id |-> "call", name |-> "add_activity", response |-> Some([result |-> j])] :
      j \in JsonTexts }
  \cup { [id |-> "call", name |-> "add_activity", response |-> Some([status |-> <<"added">>])],
         [id |-> "call", name |-> "add_activity", response |-> None],
         [status |-> <<"saved">>] }

TextContents == { <<"done">> }

UpdateTexts == { <<"Processing">>, <<"Saving">> }

\* items an Agent stream may yield
AgentItems ==
  { [is_task_complete |-> FALSE, updates |-> u] : u \in UpdateTexts }
  \cup { [is_task_complete |-> TRUE, content |-> [kind |-> "text", text |-> t]] :
           t \in TextContents }
  \cup { [is_task_complete |-> TRUE, content |-> [kind |-> "dict", dict |-> d]] :
           d \in DictContents }

\* s contains sub as a contiguous subsequence (Python: sub in s)
Contains(s, sub) ==
  \E i \in 0..(Len(s) - Len(sub)) : SubSeq(s, i + 1, i + Len(sub)) = sub

TaskSendParams ==
  [id : TaskIds, sessionId : SessionIds, part : FirstParts,
   acceptedOutputModes : ModeSets, pushNotification : PushConfigs]

NoParams ==
  [id |-> "t1", sessionId |-> "s1", part |-> TextPartOf(<<"hello">>),
   acceptedOutputModes |-> {}, pushNotification |-> None]

\* -------------------------------------------------------------- variables
VARIABLES
  tasks,                    \* InMemoryTaskManager.tasks: dict id -> Task
  push_notification_infos,  \* InMemoryTaskManager.push_notification_infos
  pc,                       \* per request slot: the await it is suspended at
  req,                      \* per slot: kind of request and its params
  loc,                      \* per slot: locals of the running coroutine
  resp,                     \* per slot: what the call returned or raised
  out,                      \* per slot: responses yielded by the stream
  hist,                     \* per slot: calls made on the collaborators, in order
  started,                  \* number of requests accepted so far
  cal                       \* CalendarAgent: the last invoke, its inputs and result

vars ==
  <<tasks, push_notification_infos, pc, req, loc, resp, out, hist, started, cal>>

\* ------------------------------------------------------- data constructors
TaskStatus(state, message) == [state |-> state, message |-> message]

Message(role, parts) == [role |-> role, parts |-> parts]

\* Artifact(parts=..., index=..., append=...); append is Optional
Artifact(parts, index, append) == [parts |-> parts, index |-> index, append |-> append]

InvalidParamsError(message) == [code |-> "InvalidParamsError", message |-> message]

InternalError(message) == [code |-> "InternalError", message |-> message]

new_incompatible_types_error == [code |-> "ContentTypeNotSupportedError", message |-> ""]

ErrorResponse(error) == [kind |-> "error", error |-> error]

ResultResponse(task) == [kind |-> "result", task |-> task]

\* an exception that leaves the handler
Raised(what) == [kind |-> "raised", error |-> what]

Call(op, arg) == [op |-> op, arg |-> arg]

NoLoc ==
  [query |-> None, result |-> None, items |-> <<>>, end |-> "open", bound |-> FALSE,
   is_task_complete |-> None, task_state |-> "", parts |-> <<>>,
   artifacts |-> None]

\* ------------------------------------------------------ external collaborators
\* common.server.utils.are_modalities_compatible
are_modalities_compatible(accepted, supported) == accepted \cap supported # {}

\* InMemoryTaskManager.upsert_task: create if absent, else leave untouched
upsert_task(ts, p) ==
  IF p.id \in DOMAIN ts
    THEN ts
    ELSE [i \in DOMAIN ts \cup {p.id} |->
            IF i = p.id
              THEN [id |-> p.id, sessionId |-> p.sessionId,
                    status |-> TaskStatus("SUBMITTED", None),
                    artifacts |-> None]
              ELSE ts[i]]

\* InMemoryTaskManager.set_push_notification_info
super_set_push_notification_info(infos, task_id, config) ==
  [i \in DOMAIN infos \cup {task_id} |-> IF i = task_id THEN config ELSE infos[i]]

\* InMemoryTaskManager.has_push_notification_info
has_push_notification_info(infos, task_id) == task_id \in DOMAIN infos

\* InMemoryTaskManager.get_push_notification_info
get_push_notification_info(infos, task_id) == infos[task_id]

\* --------------------------------------------------------- AgentTaskManager
\* _validate_request without the modality check of lines 107-115
ValidateRequest_nomodes(p) ==
  IF p.pushNotification # None /\ p.pushNotification[1].url = ""
    THEN Some(InvalidParamsError("Push notification URL is missing"))
    ELSE None

\* _validate_request without the url check of lines 117-119
ValidateRequest_nourl(p) ==
  IF p.acceptedOutputModes \cap SUPPORTED_CONTENT_TYPES = {}
    THEN Some(new_incompatible_types_error)
    ELSE None

\* _validate_request: None, or the error of the response it returns
ValidateRequest(p) ==
  IF ~are_modalities_compatible(p.acceptedOutputModes, SUPPORTED_CONTENT_TYPES)
    THEN Some(new_incompatible_types_error)
  ELSE IF p.pushNotification # None /\ p.pushNotification[1].url = ""
    THEN Some(InvalidParamsError("Push notification URL is missing"))
  ELSE None

\* _update_store putting the new artifacts before the stored ones
UpdateStore_prepend(ts, task_id, status, artifacts) ==
  IF task_id \notin DOMAIN ts
    THEN [raised |-> TRUE, tasks |-> ts]
    ELSE [raised |-> FALSE,
          tasks |-> [ts EXCEPT
                       ![task_id].status = status,
                       ![task_id].artifacts =
                          IF artifacts = None
                            THEN @
                            ELSE Some(artifacts[1] \o (IF @ = None THEN <<>> ELSE @[1]))]]

\* _update_store assigning the artifacts instead of extending them
UpdateStore_replace(ts, task_id, status, artifacts) ==
  IF task_id \notin DOMAIN ts
    THEN [raised |-> TRUE, tasks |-> ts]
    ELSE [raised |-> FALSE,
          tasks |-> [ts EXCEPT ![task_id].status = status,
                               ![task_id].artifacts = IF artifacts = None THEN @ ELSE artifacts]]

\* _update_store under self.lock: raises when the task is missing, else
\* replaces the status and extends the artifacts (None: artifacts untouched)
UpdateStore(ts, task_id, status, artifacts) ==
  IF task_id \notin DOMAIN ts
    THEN [raised |-> TRUE, tasks |-> ts]
    ELSE [raised |-> FALSE,
          tasks |-> [ts EXCEPT
                       ![task_id].status = status,
                       ![task_id].artifacts =
                          IF artifacts = None
                            THEN @
                            ELSE Some((IF @ = None THEN <<>> ELSE @[1]) \o artifacts[1])]]

\* _get_user_query without the isinstance check of line 188
GetUserQuery_anypart(p) ==
  IF p.part.type = "text" THEN Some(p.part.text) ELSE Some(<<>>)

\* _get_user_query: the text of the first part, None when it raises
GetUserQuery(p) == IF p.part.type = "text" THEN Some(p.part.text) ELSE None

\* line 177 never choosing INPUT_REQUIRED
InvokeState_completed(result) == "COMPLETED"

\* line 177 testing for the marker at the start of the result only
InvokeState_prefix(result) ==
  IF Len(result) >= Len(MISSING_INFO) /\ SubSeq(result, 1, Len(MISSING_INFO)) = MISSING_INFO
    THEN "INPUT_REQUIRED"
    ELSE "COMPLETED"

\* state chosen by _invoke for the Agent's result
InvokeState(result) ==
  IF Contains(result, MISSING_INFO) THEN "INPUT_REQUIRED" ELSE "COMPLETED"

\* set_push_notification_info taking the stored config away when the
\* challenge fails
SetPushNotificationInfo_drop(infos, task_id, config, is_verified) ==
  IF ~is_verified
    THEN [ret |-> FALSE, infos |-> [i \in DOMAIN infos \ {task_id} |-> infos[i]]]
    ELSE [ret |-> TRUE, infos |-> super_set_push_notification_info(infos, task_id, config)]

\* set_push_notification_info storing the config before looking at the verdict
SetPushNotificationInfo_unverified(infos, task_id, config, is_verified) ==
  [ret |-> is_verified, infos |-> [i \in DOMAIN infos \cup {task_id} |->
                                     IF i = task_id THEN config ELSE infos[i]]]

\* set_push_notification_info: register the config only when verified
SetPushNotificationInfo(infos, task_id, config, is_verified) ==
  IF ~is_verified
    THEN [ret |-> FALSE, infos |-> infos]
    ELSE [ret |-> TRUE, infos |-> super_set_push_notification_info(infos, task_id, config)]

\* send_task_notification without the early return of lines 193-195
SendTaskNotification_always(infos, ts, task_id, ok) ==
  <<Call("send_push_notification",
         [url |-> IF has_push_notification_info(infos, task_id)
                    THEN get_push_notification_info(infos, task_id).url
                    ELSE "",
          data |-> ts[task_id], delivered |-> ok])>>

\* send_task_notification handing the task to the Sender again when the
\* delivery failed
SendTaskNotification_retry(infos, ts, task_id, ok) ==
  IF ~has_push_notification_info(infos, task_id)
    THEN <<>>
    ELSE LET c == Call("send_push_notification",
                       [url |-> get_push_notification_info(infos, task_id).url,
                        data |-> ts[task_id], delivered |-> ok])
         IN IF ok THEN <<c>> ELSE <<c, c>>

\* send_task_notification: what is handed to the Sender (nothing without a config)
SendTaskNotification(infos, ts, task_id, ok) ==
  IF ~has_push_notification_info(infos, task_id)
    THEN <<>>
    ELSE <<Call("send_push_notification",
                [url |-> get_push_notification_info(infos, task_id).url,
                 data |-> ts[task_id], delivered |-> ok])>>


\* ----------------------------------------------- CalendarAgent (langgraph)
\* A query is a sequence of words, each in lower or upper case.
Word(w, up) == [w |-> w, up |-> up]

Phrase(ws) == [i \in 1..Len(ws) |-> Word(ws[i], FALSE)]

\* str.lower()
Lower(q) == [i \in 1..Len(q) |-> Word(q[i].w, FALSE)]

\* line 162
DayPhrases ==
  { Phrase(<<"plan", "my", "day">>), Phrase(<<"organize", "my", "day">>),
    Phrase(<<"what's", "my", "schedule">>), Phrase(<<"day", "at", "a", "glance">>) }

\* line 181
AllPhrases ==
  { Phrase(<<"all", "events">>), Phrase(<<"everything">>), Phrase(<<"history">>),
    Phrase(<<"full", "list">>) }

\* lines 81-99 of _get_date_range_from_query
RangePhrases ==
  { Phrase(<<"last", "week">>), Phrase(<<"previous", "week">>),
    Phrase(<<"this", "week">>), Phrase(<<"current", "week">>),
    Phrase(<<"last", "month">>), Phrase(<<"previous", "month">>),
    Phrase(<<"this", "month">>), Phrase(<<"current", "month">>) }

\* the phrase test on the query as typed, without lower()
AnyIn_cased(phrases, q) == \E ph \in phrases : Contains(q, ph)

\* any(word in query.lower() for word in phrases)
AnyIn(phrases, q) == \E ph \in phrases : Contains(Lower(q), ph)

\* every way of writing the words ws in lower and upper case
CaseVariants(ws) ==
  { [i \in 1..Len(ws) |-> Word(ws[i], f[i])] : f \in [1..Len(ws) -> BOOLEAN] }

\* the middle of a query: the day-planning phrases in every case, phrases that
\* miss one by a word or by the order, and phrases of the other branches
Cores ==
  UNION { CaseVariants(ws) :
            ws \in { <<"plan", "my", "day">>, <<"organize", "my", "day">>,
                     <<"what's", "my", "schedule">>, <<"day", "at", "a", "glance">>,
                     <<"plan", "day", "my">>, <<"plan", "my">>, <<"day", "at", "glance">>,
                     <<"history">>, <<"this", "week">>, <<"tomorrow">>, <<"today">>,
                     <<"lunch">> } }

PadWords == { Word("my", FALSE), Word("x", TRUE) }

RECURSIVE SeqsUpTo(_, _)
SeqsUpTo(S, n) ==
  IF n = 0 THEN { <<>> }
  ELSE SeqsUpTo(S, n - 1) \cup
       { Append(q, x) : q \in { t \in SeqsUpTo(S, n - 1) : Len(t) = n - 1 }, x \in S }

Pads == SeqsUpTo(PadWords, MaxPad)

Queries == { pre \o mid \o post : pre \in Pads, mid \in Cores, post \in Pads }

\* what _fetch_events may do: return a list of events, return the error
\* mapping of an HttpError, or raise any other exception
FetchOutcomes ==
  { [kind |-> "events", events |-> <<>>],
    [kind |-> "events", events |-> <<"e1">>],
    [kind |-> "events", events |-> <<"e1", "e2">>],
    [kind |-> "error"], [kind |-> "raised"] }

PlanEmpty == <<"You have no events scheduled for today. Your day is wide open!">>

CalResult(complete, input, content) ==
  [is_task_complete |-> complete, require_user_input |-> input, content |-> content]

\* lines 243-248: the handler of the outer try
CalExcept == CalResult(FALSE, TRUE, <<"An error occurred: ", "exception">>)

\* lines 167-172, 205-210
CalFetchError == CalResult(FALSE, TRUE, <<"An error occurred: ", "HttpError">>)

\* _plan_my_day: the summary of a non-empty list names its size
PlanMyDay(events) ==
  IF Len(events) = 0 THEN PlanEmpty
  ELSE <<"You have ", events, " event(s) today.">>

\* lines 188-203: the date range chosen for a query; dateparser may or may not
\* recognise a date in the query
DateRange(q, parsed) ==
  IF AnyIn(RangePhrases, q) THEN "range"
  ELSE IF parsed THEN "day"
  ELSE IF AnyIn({Phrase(<<"tomorrow">>)}, q) THEN "day"
  ELSE IF AnyIn({Phrase(<<"today">>), Phrase(<<"next">>)}, q) THEN "day"
  ELSE "none"

\* CalendarAgent.invoke; excel_ok: _append_events_to_excel returns (else raises)
CalInvoke(q, fetch, excel_ok, parsed) ==
  IF fetch.kind = "raised" THEN CalExcept
  ELSE IF AnyIn(DayPhrases, q)
    THEN IF fetch.kind = "error" THEN CalFetchError
         ELSE IF ~excel_ok THEN CalExcept
         ELSE CalResult(TRUE, FALSE, PlanMyDay(fetch.events))
  ELSE IF fetch.kind = "error" THEN CalFetchError
  ELSE IF Len(fetch.events) = 0
    THEN IF AnyIn(AllPhrases, q)
           THEN CalResult(TRUE, FALSE, <<"No events found in your calendar history.">>)
         ELSE IF DateRange(q, parsed) # "none"
           THEN CalResult(TRUE, FALSE, <<"No events found from ", "date", " to ", "end_date">>)
         ELSE CalResult(TRUE, FALSE, <<"No upcoming events found.">>)
  ELSE IF ~excel_ok THEN CalExcept
  ELSE CalResult(TRUE, FALSE, <<"Here are your events:", fetch.events>>)

\* a call not yet made: its query and what its collaborators are going to do
Pending(q, fetch, excel_ok, parsed) ==
  [called |-> FALSE, query |-> q, fetch |-> fetch, excel_ok |-> excel_ok,
   parsed |-> parsed, result |-> CalExcept]

NoCall == Pending(<<>>, [kind |-> "raised"], FALSE, FALSE)

\* ------------------------------------------------------------------- Init
InitManager ==
  /\ tasks = <<>>
  /\ push_notification_infos = <<>>
  /\ pc = [r \in Slots |-> "idle"]
  /\ req = [r \in Slots |-> [kind |-> "none", params |-> NoParams]]
  /\ loc = [r \in Slots |-> NoLoc]
  /\ resp = [r \in Slots |-> None]
  /\ out = [r \in Slots |-> <<>>]
  /\ hist = [r \in Slots |-> <<>>]
  /\ started = 0

Init ==
  /\ InitManager
  /\ cal = NoCall

Free(r) == pc[r] \in {"idle", "done"}

\* a slot starts a new request: its locals and logs are those of a fresh call
Begin(r, kind, p) ==
  /\ Free(r)
  /\ started < MaxRequests
  /\ started' = started + 1
  /\ req' = [req EXCEPT ![r] = [kind |-> kind, params |-> p]]
  /\ loc' = [loc EXCEPT ![r] = NoLoc]
  /\ out' = [out EXCEPT ![r] = <<>>]

Finish(r, response) ==
  /\ pc' = [pc EXCEPT ![r] = "done"]
  /\ resp' = [resp EXCEPT ![r] = Some(response)]

Goto(r, label) ==
  /\ pc' = [pc EXCEPT ![r] = label]
  /\ UNCHANGED resp

Log(r, calls) == hist' = [hist EXCEPT ![r] = @ \o calls]

\* ------------------------------------------------ on_send_task (synchronous)
\* lines 123-127: validation, up to the first await
OnSendTask(r, P) ==
  \E p \in P :
    /\ Begin(r, "send", p)
    /\ hist' = [hist EXCEPT ![r] = <<Call("_validate_request", ValidateRequest(p))>>]
    /\ IF ValidateRequest(p) # None
         THEN /\ pc' = [pc EXCEPT ![r] = "done"]
              /\ resp' = [resp EXCEPT ![r] = Some(ErrorResponse(ValidateRequest(p)[1]))]
         ELSE /\ pc' = [pc EXCEPT ![r] =
                          IF p.pushNotification # None THEN "send_verify" ELSE "send_upsert"]
              /\ resp' = [resp EXCEPT ![r] = None]
    /\ UNCHANGED <<tasks, push_notification_infos, cal>>

\* lines 128-129: set_push_notification_info, the challenge succeeding or not
SendVerify(r) ==
  /\ pc[r] = "send_verify"
  /\ \E is_verified \in BOOLEAN :
       LET p == req[r].params
           s == SetPushNotificationInfo(push_notification_infos, p.id,
                                        p.pushNotification[1], is_verified)
       IN /\ push_notification_infos' = s.infos
          /\ Log(r, <<Call("verify_push_notification_url",
                           [url |-> p.pushNotification[1].url, ok |-> is_verified])>>)
          /\ IF s.ret
               THEN Goto(r, "send_upsert")
               ELSE Finish(r, ErrorResponse(InvalidParamsError("Push notification URL is invalid")))
  /\ UNCHANGED <<tasks, req, loc, out, started, cal>>

\* on_send_task going on to the WORKING update without line 131
SendUpsert_skip(r) ==
  /\ pc[r] = "send_upsert"
  /\ Goto(r, "send_working")
  /\ UNCHANGED <<tasks, push_notification_infos, req, loc, out, hist, started, cal>>

\* line 131
SendUpsert(r) ==
  /\ pc[r] = "send_upsert"
  /\ tasks' = upsert_task(tasks, req[r].params)
  /\ Log(r, <<Call("upsert_task", [id |-> req[r].params.id,
                                    created |-> req[r].params.id \notin DOMAIN tasks])>>)
  /\ Goto(r, "send_working")
  /\ UNCHANGED <<push_notification_infos, req, loc, out, started, cal>>

\* lines 132-134 keeping the message of the status they replace
SendWorking_merge(r) ==
  /\ pc[r] = "send_working"
  /\ LET id == req[r].params.id
         old == IF id \in DOMAIN tasks THEN tasks[id].status.message ELSE None
         u == UpdateStore(tasks, id, TaskStatus("WORKING", old), Some(<<>>))
     IN /\ tasks' = u.tasks
        /\ Log(r, <<Call("_update_store", "WORKING")>>)
        /\ IF u.raised THEN Finish(r, Raised("ValueError: task not found"))
                       ELSE Goto(r, "send_notify")
  /\ UNCHANGED <<push_notification_infos, req, loc, out, started, cal>>

\* lines 132-134
SendWorking(r) ==
  /\ pc[r] = "send_working"
  /\ LET u == UpdateStore(tasks, req[r].params.id, TaskStatus("WORKING", None), Some(<<>>))
     IN /\ tasks' = u.tasks
        /\ Log(r, <<Call("_update_store", "WORKING")>>)
        /\ IF u.raised THEN Finish(r, Raised("ValueError: task not found"))
                       ELSE Goto(r, "send_notify")
  /\ UNCHANGED <<push_notification_infos, req, loc, out, started, cal>>

\* line 135
SendNotify(r) ==
  /\ pc[r] = "send_notify"
  /\ \E ok \in BOOLEAN :
       Log(r, SendTaskNotification(push_notification_infos, tasks, req[r].params.id, ok))
  /\ Goto(r, "send_invoke")
  /\ UNCHANGED <<tasks, push_notification_infos, req, loc, out, started, cal>>

\* _invoke storing a FAILED status when the Agent raises
SendInvoke_failed(r) ==
  /\ pc[r] = "send_invoke"
  /\ LET query == GetUserQuery(req[r].params)
     IN IF query = None
          THEN /\ Finish(r, Raised("ValueError: Only text parts are supported"))
               /\ UNCHANGED <<loc, hist, tasks>>
          ELSE \/ \E result \in AgentResults :
                    /\ loc' = [loc EXCEPT ![r].query = query, ![r].result = Some(result)]
                    /\ Log(r, <<Call("agent.invoke", query[1])>>)
                    /\ Goto(r, "send_store")
                    /\ UNCHANGED tasks
               \/ /\ loc' = [loc EXCEPT ![r].query = query]
                  /\ Log(r, <<Call("agent.invoke", query[1])>>)
                  /\ tasks' = UpdateStore(tasks, req[r].params.id,
                                          TaskStatus("FAILED", None), None).tasks
                  /\ Finish(r, Raised("ValueError: Error invoking agent"))
  /\ UNCHANGED <<push_notification_infos, req, out, started, cal>>

\* lines 169-175: the query, then Agent.invoke returning a string or raising
SendInvoke(r) ==
  /\ pc[r] = "send_invoke"
  /\ LET query == GetUserQuery(req[r].params)
     IN IF query = None
          THEN /\ Finish(r, Raised("ValueError: Only text parts are supported"))
               /\ UNCHANGED <<loc, hist>>
          ELSE \/ \E result \in AgentResults :
                    /\ loc' = [loc EXCEPT ![r].query = query, ![r].result = Some(result)]
                    /\ Log(r, <<Call("agent.invoke", query[1])>>)
                    /\ Goto(r, "send_store")
               \/ /\ loc' = [loc EXCEPT ![r].query = query]
                  /\ Log(r, <<Call("agent.invoke", query[1])>>)
                  /\ Finish(r, Raised("ValueError: Error invoking agent"))
  /\ UNCHANGED <<tasks, push_notification_infos, req, out, started, cal>>

\* lines 176-185
SendStore(r) ==
  /\ pc[r] = "send_store"
  /\ LET p == req[r].params
         result == loc[r].result[1]
         parts == <<TextPartOf(result)>>
         u == UpdateStore(tasks, p.id,
                          TaskStatus(InvokeState(result), Some(Message("agent", parts))),
                          Some(<<Artifact(parts, 0, None)>>))
     IN /\ tasks' = u.tasks
        /\ Log(r, <<Call("_update_store", InvokeState(result))>>)
        /\ IF u.raised THEN Finish(r, Raised("ValueError: task not found"))
                       ELSE Finish(r, ResultResponse(u.tasks[p.id]))
  /\ UNCHANGED <<push_notification_infos, req, loc, out, started, cal>>


\* ------------------------------------------- on_send_task_subscribe (streaming)
StatusEvent(id, status, final) ==
  [kind |-> "status", id |-> id, status |-> status, final |-> final]

ArtifactEvent(id, artifact) == [kind |-> "artifact", id |-> id, artifact |-> artifact]

StreamingResponse(event) == [kind |-> "response", result |-> event]

StreamError == ErrorResponse(InternalError("An error occurred while streaming the response"))

\* json.loads on a text of the grammar  v ::= 1 | { } | { k : v }
RECURSIVE json_loads(_)
json_loads(t) ==
  IF t = <<"1">> THEN [ok |-> TRUE, value |-> [t |-> "num", v |-> 1]]
  ELSE IF t = <<"{", "}">> THEN [ok |-> TRUE, value |-> [t |-> "obj", members |-> <<>>]]
  ELSE IF Len(t) >= 5 /\ t[1] = "{" /\ t[2] = "k" /\ t[3] = ":" /\ t[Len(t)] = "}"
    THEN LET inner == json_loads(SubSeq(t, 4, Len(t) - 1))
         IN IF inner.ok
              THEN [ok |-> TRUE, value |-> [t |-> "obj", members |-> [k |-> inner.value]]]
              ELSE [ok |-> FALSE, value |-> [t |-> "none"]]
  ELSE [ok |-> FALSE, value |-> [t |-> "none"]]

\* the loop body leaving out line 62: no artifact is built
LoopBody_noartifact(item) ==
  IF ~item.is_task_complete
    THEN [raised |-> FALSE, is_task_complete |-> FALSE, task_state |-> "WORKING",
          parts |-> <<TextPartOf(item.updates)>>, artifacts |-> None]
  ELSE IF item.content.kind = "dict"
    THEN LET d == item.content.dict
         IN IF "response" \in DOMAIN d /\ d.response = None
              THEN [raised |-> TRUE]
            ELSE IF "response" \in DOMAIN d /\ "result" \in DOMAIN d.response[1]
              THEN LET j == json_loads(d.response[1].result)
                   IN IF ~j.ok
                        THEN [raised |-> TRUE]
                        ELSE [raised |-> FALSE, is_task_complete |-> TRUE,
                              task_state |-> "INPUT_REQUIRED",
                              parts |-> <<DataPartOf(j.value)>>, artifacts |-> None]
            ELSE [raised |-> FALSE, is_task_complete |-> TRUE,
                  task_state |-> "COMPLETED",
                  parts |-> <<DataPartOf(d)>>, artifacts |-> None]
  ELSE [raised |-> FALSE, is_task_complete |-> TRUE, task_state |-> "COMPLETED",
        parts |-> <<TextPartOf(item.content.text)>>, artifacts |-> None]

\* lines 44-62: the loop body on one item; raised when the body throws
LoopBody(item) ==
  IF ~item.is_task_complete
    THEN [raised |-> FALSE, is_task_complete |-> FALSE, task_state |-> "WORKING",
          parts |-> <<TextPartOf(item.updates)>>, artifacts |-> None]
  ELSE IF item.content.kind = "dict"
    THEN LET d == item.content.dict
         IN IF "response" \in DOMAIN d /\ d.response = None
              THEN [raised |-> TRUE]
            ELSE IF "response" \in DOMAIN d /\ "result" \in DOMAIN d.response[1]
              THEN LET j == json_loads(d.response[1].result)
                   IN IF ~j.ok
                        THEN [raised |-> TRUE]
                        ELSE [raised |-> FALSE, is_task_complete |-> TRUE,
                              task_state |-> "INPUT_REQUIRED",
                              parts |-> <<DataPartOf(j.value)>>,
                              artifacts |-> Some(<<Artifact(<<DataPartOf(j.value)>>, 0, Some(FALSE))>>)]
            ELSE [raised |-> FALSE, is_task_complete |-> TRUE,
                  task_state |-> "COMPLETED",
                  parts |-> <<DataPartOf(d)>>,
                  artifacts |-> Some(<<Artifact(<<DataPartOf(d)>>, 0, Some(FALSE))>>)]
  ELSE [raised |-> FALSE, is_task_complete |-> TRUE, task_state |-> "COMPLETED",
        parts |-> <<TextPartOf(item.content.text)>>,
        artifacts |-> Some(<<Artifact(<<TextPartOf(item.content.text)>>, 0, Some(FALSE))>>)]

\* line 64: the status built after the loop
LoopStatus(l) == TaskStatus(l.task_state, Some(Message("agent", l.parts)))

\* the generator yields one response and is suspended at `label`
Yield(r, response, label) ==
  /\ out' = [out EXCEPT ![r] = Append(@, response)]
  /\ pc' = [pc EXCEPT ![r] = label]

\* the except clause without the yield of lines 97-102
Except_silent(r) ==
  /\ pc' = [pc EXCEPT ![r] = "done"]
  /\ UNCHANGED out

\* lines 95-102: the except clause yields the error response; the generator ends
Except(r) == Yield(r, StreamError, "done")

\* lines 140-142: validation, up to the first await
OnSendTaskSubscribe(r, P) ==
  \E p \in P :
    /\ Begin(r, "subscribe", p)
    /\ hist' = [hist EXCEPT ![r] = <<Call("_validate_request", ValidateRequest(p))>>]
    /\ IF ValidateRequest(p) # None
         THEN /\ pc' = [pc EXCEPT ![r] = "done"]
              /\ resp' = [resp EXCEPT ![r] = Some(ErrorResponse(ValidateRequest(p)[1]))]
         ELSE /\ pc' = [pc EXCEPT ![r] = "sub_upsert"]
              /\ resp' = [resp EXCEPT ![r] = None]
    /\ UNCHANGED <<tasks, push_notification_infos, cal>>

\* line 144; without a push config line 150 returns the generator
SubUpsert(r) ==
  /\ pc[r] = "sub_upsert"
  /\ tasks' = upsert_task(tasks, req[r].params)
  /\ Log(r, <<Call("upsert_task", [id |-> req[r].params.id,
                                    created |-> req[r].params.id \notin DOMAIN tasks])>>)
  /\ IF req[r].params.pushNotification # None
       THEN Goto(r, "sub_verify")
       ELSE /\ pc' = [pc EXCEPT ![r] = "gen_start"]
            /\ resp' = [resp EXCEPT ![r] = Some([kind |-> "stream"])]
  /\ UNCHANGED <<push_notification_infos, req, loc, out, started, cal>>

\* lines 146-150
SubVerify(r) ==
  /\ pc[r] = "sub_verify"
  /\ \E is_verified \in BOOLEAN :
       LET p == req[r].params
           s == SetPushNotificationInfo(push_notification_infos, p.id,
                                        p.pushNotification[1], is_verified)
       IN /\ push_notification_infos' = s.infos
          /\ Log(r, <<Call("verify_push_notification_url",
                           [url |-> p.pushNotification[1].url, ok |-> is_verified])>>)
          /\ IF s.ret
               THEN /\ pc' = [pc EXCEPT ![r] = "gen_start"]
                    /\ resp' = [resp EXCEPT ![r] = Some([kind |-> "stream"])]
               ELSE Finish(r, ErrorResponse(InvalidParamsError("Push notification URL is invalid")))
  /\ UNCHANGED <<tasks, req, loc, out, started, cal>>

\* lines 40-43: the consumer starts the generator; _get_user_query is outside
\* the try, so its error leaves the generator
GenStart(r) ==
  /\ pc[r] = "gen_start"
  /\ LET query == GetUserQuery(req[r].params)
     IN IF query = None
          THEN /\ Finish(r, Raised("ValueError: Only text parts are supported"))
               /\ UNCHANGED <<loc, hist>>
          ELSE /\ loc' = [loc EXCEPT ![r].query = query]
               /\ Log(r, <<Call("agent.stream", query[1])>>)
               /\ Goto(r, "gen_loop")
  /\ UNCHANGED <<tasks, push_notification_infos, req, out, started, cal>>

\* the loop body of lines 43-62 with the store update of line 65 inside the loop
GenItem_persist(r) ==
  /\ pc[r] = "gen_loop"
  /\ Len(loc[r].items) < MaxItems
  /\ \E item \in AgentItems :
       LET b == LoopBody(item)
       IN IF b.raised
            THEN /\ Except(r)
                 /\ loc' = [loc EXCEPT ![r].items = Append(@, item)]
                 /\ UNCHANGED tasks
            ELSE /\ loc' = [loc EXCEPT ![r].items = Append(@, item),
                                       ![r].bound = TRUE,
                                       ![r].is_task_complete = Some(b.is_task_complete),
                                       ![r].task_state = b.task_state,
                                       ![r].parts = b.parts,
                                       ![r].artifacts = b.artifacts]
                 /\ tasks' = UpdateStore(tasks, req[r].params.id,
                                         TaskStatus(b.task_state, Some(Message("agent", b.parts))),
                                         b.artifacts).tasks
                 /\ UNCHANGED <<pc, out>>
  /\ UNCHANGED <<push_notification_infos, req, resp, hist, started, cal>>

\* lines 43-62: the Agent yields one more item and the loop body runs on it
GenItem(r) ==
  /\ pc[r] = "gen_loop"
  /\ Len(loc[r].items) < MaxItems
  /\ \E item \in AgentItems :
       LET b == LoopBody(item)
       IN IF b.raised
            THEN /\ Except(r)
                 /\ loc' = [loc EXCEPT ![r].items = Append(@, item)]
            ELSE /\ loc' = [loc EXCEPT ![r].items = Append(@, item),
                                       ![r].bound = TRUE,
                                       ![r].is_task_complete = Some(b.is_task_complete),
                                       ![r].task_state = b.task_state,
                                       ![r].parts = b.parts,
                                       ![r].artifacts = b.artifacts]
                 /\ UNCHANGED <<pc, out>>
  /\ UNCHANGED <<tasks, push_notification_infos, req, resp, hist, started, cal>>

\* line 43: the Agent stream raises
GenAgentRaises(r) ==
  /\ pc[r] = "gen_loop"
  /\ Except(r)
  /\ loc' = [loc EXCEPT ![r].end = "raised"]
  /\ UNCHANGED <<tasks, push_notification_infos, req, resp, hist, started, cal>>

\* lines 63-65: the Agent stream is exhausted; with no item at all `parts` is
\* unbound and line 63 throws; else the last item's status is stored
GenStore(r) ==
  /\ pc[r] = "gen_loop"
  /\ loc' = [loc EXCEPT ![r].end = "exhausted"]
  /\ IF ~loc[r].bound
       THEN /\ Except(r)
            /\ UNCHANGED <<tasks, hist>>
       ELSE LET u == UpdateStore(tasks, req[r].params.id, LoopStatus(loc[r]), loc[r].artifacts)
            IN /\ tasks' = u.tasks
               /\ Log(r, <<Call("_update_store", loc[r].task_state)>>)
               /\ IF u.raised THEN Except(r)
                              ELSE /\ pc' = [pc EXCEPT ![r] = "gen_notify"]
                                   /\ UNCHANGED out
  /\ UNCHANGED <<push_notification_infos, req, resp, started, cal>>

\* lines 66-73: the notification, then the first status event
GenNotify(r) ==
  /\ pc[r] = "gen_notify"
  /\ \E ok \in BOOLEAN :
       Log(r, SendTaskNotification(push_notification_infos, tasks, req[r].params.id, ok))
  /\ Yield(r, StreamingResponse(StatusEvent(req[r].params.id, LoopStatus(loc[r]), FALSE)),
           "gen_artifacts")
  /\ UNCHANGED <<tasks, push_notification_infos, req, loc, resp, started, cal>>

\* lines 75-94: the consumer resumes the generator after an event: the next
\* artifact event, then the final status event, then the generator returns
GenResume(r) ==
  /\ pc[r] \in {"gen_artifacts", "gen_final"}
  /\ LET l == loc[r]
         id == req[r].params.id
         nsent == Cardinality({i \in 1..Len(out[r]) :
                                 out[r][i].kind = "response"
                                 /\ out[r][i].result.kind = "artifact"})
         arts == IF l.artifacts = None THEN <<>> ELSE l.artifacts[1]
     IN IF pc[r] = "gen_artifacts" /\ nsent < Len(arts)
          THEN Yield(r, StreamingResponse(ArtifactEvent(id, arts[nsent + 1])), "gen_artifacts")
        ELSE IF pc[r] = "gen_artifacts" /\ l.is_task_complete = Some(TRUE)
          THEN Yield(r, StreamingResponse(
                          StatusEvent(id, TaskStatus(LoopStatus(l).state, None), TRUE)),
                     "gen_final")
        ELSE /\ pc' = [pc EXCEPT ![r] = "done"]
             /\ UNCHANGED out
  /\ UNCHANGED <<tasks, push_notification_infos, req, loc, resp, hist, started, cal>>

Next ==
  \/ \E r \in SeqSlots : OnSendTask(r, TaskSendParams)
  \/ \E r \in SeqSlots : SendVerify(r)
  \/ \E r \in SeqSlots : SendUpsert(r)
  \/ \E r \in SeqSlots : SendWorking(r)
  \/ \E r \in SeqSlots : SendNotify(r)
  \/ \E r \in SeqSlots : SendInvoke(r)
  \/ \E r \in SeqSlots : SendStore(r)
  \/ \E r \in SeqSlots : OnSendTaskSubscribe(r, TaskSendParams)
  \/ \E r \in SeqSlots : SubUpsert(r)
  \/ \E r \in SeqSlots : SubVerify(r)
  \/ \E r \in SeqSlots : GenStart(r)
  \/ \E r \in SeqSlots : GenItem(r)
  \/ \E r \in SeqSlots : GenAgentRaises(r)
  \/ \E r \in SeqSlots : GenStore(r)
  \/ \E r \in SeqSlots : GenNotify(r)
  \/ \E r \in SeqSlots : GenResume(r)

\* requests served one at a time
Spec == Init /\ [][Next]_vars

\* ------------------------------------- concurrent on_send_task requests
\* requests that run concurrently: text first part, compatible output modes
ConcParams ==
  [id : TaskIds, sessionId : {"s1"}, part : {TextPartOf(<<"hello">>)},
   acceptedOutputModes : {{"text/plain", "image/png"}},
   pushNotification : {None, Some([url |-> "u1"])}]

\* the requests that are inside `async with self.lock` of _update_store
LockHolders == { r \in Slots : pc[r] \in {"working_locked", "store_locked"} }

\* `async with self.lock` letting every coroutine in
LockFree_open == TRUE

\* self.lock is not held: `async with` lets one coroutine in at a time
LockFree == LockHolders = {}

\* a request arrives on a slot that has served none yet
ConcStart(r) ==
  /\ pc[r] = "idle"
  /\ OnSendTask(r, ConcParams)

\* line 131: upsert_task takes the store lock for its own read-modify-write
ConcUpsert(r) ==
  /\ LockFree
  /\ SendUpsert(r)

\* line 154: _update_store enters `async with self.lock`, for the WORKING
\* update of lines 132-134 or for the final update of lines 178-184
Acquire(r) ==
  /\ pc[r] \in {"send_working", "send_store"}
  /\ LockFree
  /\ pc' = [pc EXCEPT ![r] = IF pc[r] = "send_working" THEN "working_locked"
                                                       ELSE "store_locked"]
  /\ UNCHANGED <<tasks, push_notification_infos, req, loc, resp, out, hist, started, cal>>

\* lines 155-167 for the call of lines 132-134, then the lock is released
WorkingLocked(r) ==
  /\ pc[r] = "working_locked"
  /\ LET u == UpdateStore(tasks, req[r].params.id, TaskStatus("WORKING", None), Some(<<>>))
     IN /\ tasks' = u.tasks
        /\ Log(r, <<Call("_update_store", "WORKING")>>)
        /\ IF u.raised THEN Finish(r, Raised("ValueError: task not found"))
                       ELSE Goto(r, "send_notify")
  /\ UNCHANGED <<push_notification_infos, req, loc, out, started, cal>>

\* the final update of _invoke never storing: lines 178-184 left out
StoreLocked_skip(r) ==
  /\ pc[r] = "store_locked"
  /\ Log(r, <<Call("_update_store", InvokeState(loc[r].result[1]))>>)
  /\ Finish(r, ResultResponse(tasks[req[r].params.id]))
  /\ UNCHANGED <<tasks, push_notification_infos, req, loc, out, started, cal>>

\* lines 155-167 for the call of lines 176-184, the lock is released, and
\* line 185 returns the task
StoreLocked(r) ==
  /\ pc[r] = "store_locked"
  /\ LET p == req[r].params
         result == loc[r].result[1]
         parts == <<TextPartOf(result)>>
         u == UpdateStore(tasks, p.id,
                          TaskStatus(InvokeState(result), Some(Message("agent", parts))),
                          Some(<<Artifact(parts, 0, None)>>))
     IN /\ tasks' = u.tasks
        /\ Log(r, <<Call("_update_store", InvokeState(result))>>)
        /\ IF u.raised THEN Finish(r, Raised("ValueError: task not found"))
                       ELSE Finish(r, ResultResponse(u.tasks[p.id]))
  /\ UNCHANGED <<push_notification_infos, req, loc, out, started, cal>>

ConcNext ==
  \/ \E r \in Slots : ConcStart(r)
  \/ \E r \in Slots : SendVerify(r)
  \/ \E r \in Slots : ConcUpsert(r)
  \/ \E r \in Slots : Acquire(r)
  \/ \E r \in Slots : WorkingLocked(r)
  \/ \E r \in Slots : SendNotify(r)
  \/ \E r \in Slots : SendInvoke(r)
  \/ \E r \in Slots : StoreLocked(r)

\* two on_send_task requests, interleaved at their awaits
ConcSpec == Init /\ [][ConcNext]_vars

\* the calendar agent before one call, on any query and with any collaborators
CalInit ==
  /\ InitManager
  /\ \E q \in Queries, fetch \in FetchOutcomes, excel_ok \in BOOLEAN, parsed \in BOOLEAN :
       cal = Pending(q, fetch, excel_ok, parsed)

\* CalendarAgent.invoke runs
Invoke ==
  /\ ~cal.called
  /\ cal' = [cal EXCEPT !.called = TRUE,
                        !.result = CalInvoke(cal.query, cal.fetch, cal.excel_ok, cal.parsed)]
  /\ UNCHANGED <<tasks, push_notification_infos, pc, req, loc, resp, out, hist, started>>

CalNext == Invoke

CalSpec == CalInit /\ [][CalNext]_vars

\* ------------------------------------------------------------- properties
HistOps(r) == { hist[r][i].op : i \in 1..Len(hist[r]) }

\* the slot's request had its challenge answered, and it failed
VerifyFailed(r) ==
  \E i \in 1..Len(hist[r]) :
    hist[r][i].op = "verify_push_notification_url" /\ ~hist[r][i].arg.ok

\* the slot's request created its task in the store
Created(r) ==
  \E i \in 1..Len(hist[r]) : hist[r][i].op = "upsert_task" /\ hist[r][i].arg.created

Compatible(p) == p.acceptedOutputModes \cap SUPPORTED_CONTENT_TYPES # {}

InvalidUrl == ErrorResponse(InvalidParamsError("Push notification URL is invalid"))

MissingUrl == ErrorResponse(InvalidParamsError("Push notification URL is missing"))

Arts(t) == IF t.artifacts = None THEN <<>> ELSE t.artifacts[1]

IsPrefix(a, b) == Len(a) <= Len(b) /\ SubSeq(b, 1, Len(a)) = a

\* C1: when on_send_task returns after Agent.invoke returned a string r, the
\* stored task's state is INPUT_REQUIRED if r contains "MISSING_INFO:" and
\* COMPLETED otherwise, and the call returns a result.
C1_StateAtReturn ==
  [][\A r \in Slots :
       (req[r].kind = "send" /\ pc[r] = "send_store" /\ pc'[r] = "done")
         => /\ resp'[r] # None /\ resp'[r][1].kind = "result"
            /\ req[r].params.id \in DOMAIN tasks'
            /\ tasks'[req[r].params.id].status.state =
                 (IF Contains(loc[r].result[1], MISSING_INFO)
                    THEN "INPUT_REQUIRED" ELSE "COMPLETED")]_vars

C1_Witness ==
  \E r \in Slots :
    /\ req[r].kind = "send" /\ pc[r] = "done"
    /\ loc[r].result = Some(<<"ok">> \o MISSING_INFO \o <<"ok">>)
    /\ resp[r][1].kind = "result"
    /\ tasks[req[r].params.id].status.state = "INPUT_REQUIRED"

\* C2: an on_send_task request whose accepted output modes are disjoint from
\* the supported content types ends at once with an error response, having
\* made no call but the validation, and leaves tasks and push configs as
\* they were.
C2_DisjointModesRejected ==
  /\ [](\A r \in Slots :
          (req[r].kind = "send" /\ ~Compatible(req[r].params))
            => /\ pc[r] = "done"
               /\ resp[r] = Some(ErrorResponse(new_incompatible_types_error))
               /\ HistOps(r) = {"_validate_request"})
  /\ [][\A r \in Slots :
          (started' # started /\ req'[r].kind = "send" /\ ~Compatible(req'[r].params))
            => UNCHANGED <<tasks, push_notification_infos>>]_vars

C2_Witness ==
  \E r \in Slots :
    /\ req[r].kind = "send" /\ pc[r] = "done"
    /\ ~Compatible(req[r].params)
    /\ req[r].params.pushNotification # None
    /\ req[r].params.pushNotification[1].url # ""
    /\ req[r].params.id \in DOMAIN tasks
    /\ req[r].params.id \notin DOMAIN push_notification_infos

\* C3 as stated: on_send_task with a push config whose url is empty or whose
\* challenge fails returns an "invalid params" error, creates or mutates no
\* task and does not invoke the Agent.
C3_Original ==
  \A r \in Slots :
    (/\ req[r].kind = "send" /\ pc[r] = "done"
     /\ req[r].params.pushNotification # None
     /\ (req[r].params.pushNotification[1].url = "" \/ VerifyFailed(r)))
      => /\ resp[r][1].kind = "error"
         /\ resp[r][1].error.code = "InvalidParamsError"
         /\ HistOps(r) \cap {"upsert_task", "_update_store", "agent.invoke"} = {}

\* C3 amended: the same for requests whose accepted output modes are
\* compatible: the error is "invalid params", the request made no call on the
\* store or the Agent, its steps leave the tasks as they were, and with an
\* empty url no challenge is issued.
C3_PushConfigRejected ==
  /\ [](\A r \in Slots :
          (/\ req[r].kind = "send" /\ Compatible(req[r].params)
           /\ req[r].params.pushNotification # None
           /\ (req[r].params.pushNotification[1].url = "" \/ VerifyFailed(r)))
            => /\ pc[r] = "done"
               /\ resp[r] = Some(IF req[r].params.pushNotification[1].url = ""
                                   THEN MissingUrl ELSE InvalidUrl)
               /\ HistOps(r) \cap {"upsert_task", "_update_store", "agent.invoke",
                                   "send_push_notification"} = {}
               /\ (req[r].params.pushNotification[1].url = ""
                     => "verify_push_notification_url" \notin HistOps(r)))
  /\ [][\A r \in Slots :
          (/\ req'[r].kind = "send" /\ pc'[r] = "done" /\ pc[r] # "done"
           /\ resp'[r] \in {Some(MissingUrl), Some(InvalidUrl)})
            => UNCHANGED <<tasks, push_notification_infos>>]_vars

C3_Witness ==
  \E r \in Slots :
    /\ req[r].kind = "send" /\ pc[r] = "done"
    /\ Compatible(req[r].params)
    /\ VerifyFailed(r)
    /\ resp[r] = Some(InvalidUrl)
    /\ req[r].params.id \notin DOMAIN tasks
    /\ started = 2

\* C4: a streaming request whose push config fails the challenge returns an
\* "invalid params" error and has created or mutated no task.
C4_StreamingVerifyFailure ==
  \A r \in Slots :
    (req[r].kind = "subscribe" /\ pc[r] = "done" /\ VerifyFailed(r))
      => /\ resp[r] = Some(InvalidUrl)
         /\ ~Created(r)
         /\ "_update_store" \notin HistOps(r)
         /\ (started = 1 => DOMAIN tasks = {})

\* the Agent stream of the slot's request yielded exactly one item, a
\* complete one with text content, and then ended
OneTextItem(r) ==
  /\ req[r].kind = "subscribe" /\ pc[r] = "done"
  /\ loc[r].end = "exhausted"
  /\ Len(loc[r].items) = 1
  /\ loc[r].items[1].is_task_complete
  /\ loc[r].items[1].content.kind = "text"

\* the three responses of C5, the first status event carrying `state`
OneTextResponses(r, state) ==
  LET id == req[r].params.id
      part == [type |-> "text", text |-> loc[r].items[1].content.text]
  IN << [kind |-> "response",
         result |-> [kind |-> "status", id |-> id, final |-> FALSE,
                     status |-> [state |-> state,
                                 message |-> Some([role |-> "agent", parts |-> <<part>>])]]],
        [kind |-> "response",
         result |-> [kind |-> "artifact", id |-> id,
                     artifact |-> [parts |-> <<part>>, index |-> 0, append |-> Some(FALSE)]]],
        [kind |-> "response",
         result |-> [kind |-> "status", id |-> id, final |-> TRUE,
                     status |-> [state |-> "COMPLETED", message |-> None]]] >>

\* C5 as stated: the first of the three responses is a status event labelled
\* WORKING.
C5_Original == \A r \in Slots : OneTextItem(r) => out[r] = OneTextResponses(r, "WORKING")

\* C5 amended: for a stream of one complete item with text c the responses
\* are, in order, a non-final status event with state COMPLETED (the stored
\* status) carrying the text part c, an artifact event with the single text
\* part c, and a final status event with state COMPLETED.
C5_OneCompleteItem ==
  \A r \in Slots : OneTextItem(r) => out[r] = OneTextResponses(r, "COMPLETED")

C5_Witness ==
  \E r \in Slots :
    /\ OneTextItem(r)
    /\ Len(out[r]) = 3
    /\ out[r][3].result.final
    /\ tasks[req[r].params.id].status.state = "COMPLETED"

\* a response that ends a stream: a final status event or an error response
Terminator(e) ==
  \/ e.kind = "error"
  \/ e.kind = "response" /\ e.result.kind = "status" /\ e.result.final

\* C6: the responses of a stream whose generator has run to its end finish
\* with a final status event or are a single error response, and no response
\* before the last is a terminator.
C6_StreamTerminated ==
  \A r \in Slots :
    (req[r].kind = "subscribe" /\ pc[r] = "done" /\ loc[r].end # "open")
      => /\ Len(out[r]) >= 1
         /\ Terminator(out[r][Len(out[r])])
         /\ \A i \in 1..(Len(out[r]) - 1) : ~Terminator(out[r][i])
         /\ (out[r][Len(out[r])].kind = "error" => Len(out[r]) = 1)

\* C7: a step of set_push_notification_info whose challenge fails leaves the
\* registered configs as they were and makes the caller return the
\* "invalid params" error.
C7_FailedVerificationKeepsConfigs ==
  [][\A r \in Slots :
       (/\ pc[r] \in {"send_verify", "sub_verify"}
        /\ Len(hist'[r]) = Len(hist[r]) + 1
        /\ hist'[r][Len(hist'[r])].op = "verify_push_notification_url"
        /\ ~hist'[r][Len(hist'[r])].arg.ok)
         => /\ push_notification_infos' = push_notification_infos
            /\ pc'[r] = "done"
            /\ resp'[r] = Some(InvalidUrl)]_vars

C7_Witness ==
  \E r \in Slots :
    /\ pc[r] = "done" /\ VerifyFailed(r)
    /\ resp[r] = Some(InvalidUrl)
    /\ req[r].params.id \in DOMAIN push_notification_infos
    /\ push_notification_infos[req[r].params.id].url # req[r].params.pushNotification[1].url

\* C8: the store holds one task per id, filed under its own id; a task, once
\* stored, stays stored with its id and sessionId, and its artifacts are only
\* ever extended; a task enters the store only by the upsert of a request that
\* carries its id.
C8_UpsertKeepsTask ==
  /\ [](\A i \in DOMAIN tasks : tasks[i].id = i)
  /\ [][/\ \A i \in DOMAIN tasks :
             /\ i \in DOMAIN tasks'
             /\ tasks'[i].id = tasks[i].id
             /\ tasks'[i].sessionId = tasks[i].sessionId
             /\ IsPrefix(Arts(tasks[i]), Arts(tasks'[i]))
        /\ \A i \in DOMAIN tasks' \ DOMAIN tasks :
             \E r \in Slots : /\ pc[r] \in {"send_upsert", "sub_upsert"}
                              /\ req[r].params.id = i]_vars

C8_Witness ==
  \E r \in Slots :
    /\ req[r].kind = "send" /\ pc[r] = "done"
    /\ resp[r][1].kind = "result"
    /\ ~Created(r)
    /\ tasks[req[r].params.id].sessionId # req[r].params.sessionId
    /\ Len(Arts(tasks[req[r].params.id])) = 2
    /\ DOMAIN tasks = {req[r].params.id}

\* C9: a request whose first part is not a text part never has the Agent
\* called, never gets past the extraction of the query, and when it ends it
\* ends with an error response or with the "only text parts" error raised.
C9_NonTextNeverInvokes ==
  \A r \in Slots :
    (req[r].kind \in {"send", "subscribe"} /\ req[r].params.part.type # "text")
      => /\ HistOps(r) \cap {"agent.invoke", "agent.stream"} = {}
         /\ pc[r] \notin {"send_store", "gen_loop", "gen_notify", "gen_artifacts", "gen_final"}
         /\ out[r] = <<>>
         /\ (pc[r] = "done" =>
               \/ resp[r][1].kind = "error"
               \/ resp[r] = Some([kind |-> "raised",
                                  error |-> "ValueError: Only text parts are supported"]))

C9_Witness ==
  \E r \in Slots :
    /\ req[r].kind = "subscribe" /\ pc[r] = "done"
    /\ req[r].params.part.type = "data"
    /\ resp[r][1].kind = "raised"
    /\ req[r].params.id \in DOMAIN tasks

\* the query holds one of the day-planning phrases, whatever the case
DayPlanningQuery(q) ==
  \E ph \in { <<"plan", "my", "day">>, <<"organize", "my", "day">>,
              <<"what's", "my", "schedule">>, <<"day", "at", "a", "glance">> } :
    \E i \in 0..(Len(q) - Len(ph)) : \A j \in 1..Len(ph) : q[i + j].w = ph[j]

IsWorkingEvent(e) ==
  /\ e.kind = "response" /\ e.result.kind = "status"
  /\ ~e.result.final /\ e.result.status.state = "WORKING"

\* the Agent stream of the slot's request yielded updates only and then one
\* complete item, ended, and the generator has run to its end
UpdatesThenComplete(r) ==
  /\ req[r].kind = "subscribe" /\ pc[r] = "done"
  /\ loc[r].end = "exhausted"
  /\ Len(loc[r].items) >= 1
  /\ loc[r].items[Len(loc[r].items)].is_task_complete
  /\ \A i \in 1..(Len(loc[r].items) - 1) : ~loc[r].items[i].is_task_complete

\* C11: for a stream of k updates u1..uk followed by the complete item, the
\* responses hold, in the order of the updates, one non-final WORKING status
\* event per update whose only part is the text of that update.
C11_WorkingEventPerUpdate ==
  \A r \in Slots :
    UpdatesThenComplete(r)
      => LET w == SelectSeq(out[r], IsWorkingEvent)
             k == Len(loc[r].items) - 1
         IN /\ Len(w) = k
            /\ \A i \in 1..k :
                 w[i].result.status.message =
                   Some(Message("agent", <<TextPartOf(loc[r].items[i].updates)>>))

\* how many calls of `op` the slot's request has made
CountOps(r, op) == Cardinality({ i \in 1..Len(hist[r]) : hist[r][i].op = op })

\* the status and the artifacts the streaming path derives from a text or an
\* update item
ItemStatus(item) ==
  IF item.is_task_complete
    THEN [state |-> "COMPLETED",
          message |-> Some([role |-> "agent",
                            parts |-> <<[type |-> "text", text |-> item.content.text]>>])]
    ELSE [state |-> "WORKING",
          message |-> Some([role |-> "agent",
                            parts |-> <<[type |-> "text", text |-> item.updates]>>])]

ItemArtifacts(item) ==
  IF item.is_task_complete
    THEN << [parts |-> <<[type |-> "text", text |-> item.content.text]>>,
             index |-> 0, append |-> Some(FALSE)] >>
    ELSE <<>>

IsDictItem(item) == item.is_task_complete /\ item.content.kind = "dict"

\* C12: a streaming request that runs its stream to the end writes the stored
\* task once after the upsert: the handler makes no store update of its own,
\* the tasks stay as they are while items are consumed, the one update after
\* the last item writes the status and appends the artifacts of that item
\* only, and it and the notification precede the first response, a status
\* event that carries the stored status.
C12_SingleStoreUpdate ==
  /\ [](\A r \in Slots :
          req[r].kind = "subscribe"
            => /\ CountOps(r, "_update_store") <= 1
               /\ (pc[r] \in {"sub_upsert", "sub_verify", "gen_start", "gen_loop"}
                     => "_update_store" \notin HistOps(r) /\ out[r] = <<>>)
               /\ ((out[r] # <<>> /\ out[r][1].kind = "response")
                     => /\ CountOps(r, "_update_store") = 1
                        /\ (req[r].params.id \in DOMAIN push_notification_infos
                              => CountOps(r, "send_push_notification") = 1)))
  /\ [][\A r \in Slots :
          LET id == req[r].params.id
              last == loc[r].items[Len(loc[r].items)]
          IN /\ (pc[r] \in {"sub_verify", "gen_start"} => tasks' = tasks)
             /\ (pc[r] = "gen_loop" /\ pc'[r] # "gen_notify" => tasks' = tasks)
             /\ (pc[r] = "gen_loop" /\ pc'[r] = "gen_notify"
                   => /\ out'[r] = <<>>
                      /\ \A i \in DOMAIN tasks \ {id} : tasks'[i] = tasks[i]
                      /\ (~IsDictItem(last)
                            => /\ tasks'[id].status = ItemStatus(last)
                               /\ Arts(tasks'[id]) = Arts(tasks[id]) \o ItemArtifacts(last)))
             /\ (pc[r] = "gen_notify"
                   => /\ tasks' = tasks
                      /\ out'[r] = << [kind |-> "response",
                                       result |-> [kind |-> "status", id |-> id,
                                                   status |-> tasks[id].status,
                                                   final |-> FALSE]] >>)]_vars

C12_Witness ==
  \E r \in Slots :
    /\ req[r].kind = "subscribe" /\ pc[r] = "done"
    /\ loc[r].end = "exhausted"
    /\ Len(loc[r].items) = 2
    /\ ~loc[r].items[1].is_task_complete
    /\ loc[r].items[2].is_task_complete /\ loc[r].items[2].content.kind = "text"
    /\ Len(out[r]) = 3
    /\ CountOps(r, "_update_store") = 1
    /\ CountOps(r, "send_push_notification") = 1
    /\ tasks[req[r].params.id].status.state = "COMPLETED"
    /\ Len(Arts(tasks[req[r].params.id])) = 1

\* the mapping has a nested response.result
HasNestedResult(d) ==
  /\ "response" \in DOMAIN d
  /\ d.response # None
  /\ "result" \in DOMAIN d.response[1]

\* the state and the single part C13 names for the content of a complete item
ContentShape(content) ==
  IF content.kind = "text"
    THEN [state |-> "COMPLETED", part |-> [type |-> "text", text |-> content.text]]
  ELSE IF HasNestedResult(content.dict)
    THEN [state |-> "INPUT_REQUIRED",
          part |-> [type |-> "data",
                    data |-> json_loads(content.dict.response[1].result).value]]
  ELSE [state |-> "COMPLETED", part |-> [type |-> "data", data |-> content.dict]]

\* the nested value, when there is one, is a JSON text
Decodable(content) ==
  (content.kind = "dict" /\ HasNestedResult(content.dict))
    => json_loads(content.dict.response[1].result).ok

\* C13: once the loop body has run on a complete item, the state, the single
\* part and the single artifact (index 0, append=false) follow the shape of
\* its content: nested response.result gives INPUT_REQUIRED and a data part
\* with the decoded value, any other mapping COMPLETED and a data part with
\* the mapping, plain text COMPLETED and a text part.
C13_CompleteItemShape ==
  \A r \in Slots :
    (/\ req[r].kind = "subscribe"
     /\ Len(loc[r].items) >= 1
     /\ loc[r].items[Len(loc[r].items)].is_task_complete
     /\ Decodable(loc[r].items[Len(loc[r].items)].content))
      => LET shape == ContentShape(loc[r].items[Len(loc[r].items)].content)
         IN /\ loc[r].task_state = shape.state
            /\ loc[r].parts = <<shape.part>>
            /\ loc[r].artifacts =
                 Some(<<[parts |-> <<shape.part>>, index |-> 0, append |-> Some(FALSE)]>>)

InternalErrorResponse ==
  [kind |-> "error",
   error |-> [code |-> "InternalError",
              message |-> "An error occurred while streaming the response"]]

\* C14: when the Agent stream raises, after any number of updates, the
\* responses are the single "internal error" response, the request has made
\* no store update and sent no notification, and from the start of the stream
\* to its end the tasks are left as they were.
C14_AgentRaiseYieldsOneError ==
  /\ [](\A r \in Slots :
          (req[r].kind = "subscribe" /\ loc[r].end = "raised")
            => /\ pc[r] = "done"
               /\ out[r] = <<InternalErrorResponse>>
               /\ HistOps(r) \cap {"_update_store", "send_push_notification"} = {})
  /\ [][\A r \in Slots :
          /\ (pc[r] = "gen_loop" /\ loc'[r].end = "raised"
                => /\ out[r] = <<>>
                   /\ UNCHANGED <<tasks, push_notification_infos>>)
          /\ (pc[r] \in {"gen_start", "gen_loop"} /\ pc'[r] \in {"gen_loop", "done"}
                => tasks' = tasks)]_vars

C14_Witness ==
  \E r \in Slots :
    /\ req[r].kind = "subscribe" /\ pc[r] = "done"
    /\ loc[r].end = "raised"
    /\ Len(loc[r].items) = 2
    /\ out[r] = <<InternalErrorResponse>>
    /\ started = 2
    /\ ~Created(r)
    /\ tasks[req[r].params.id].status.state = "INPUT_REQUIRED"

\* the handler of the slot's streaming request returned the generator and the
\* consumer has run it to its end
GeneratorRan(r) ==
  /\ req[r].kind = "subscribe" /\ pc[r] = "done"
  /\ "upsert_task" \in HistOps(r)
  /\ ~VerifyFailed(r)

\* C15: a generator that has run to its end never raised to its consumer, and
\* when a failure occurred in it (no text query could be extracted, the Agent
\* stream or the loop body raised, the task was missing on the store update)
\* its last response is an error response, the only one.
C15_GeneratorNeverRaises ==
  \A r \in Slots :
    GeneratorRan(r)
      => /\ resp[r][1].kind # "raised"
         /\ ((\/ req[r].params.part.type # "text"
              \/ loc[r].end = "raised"
              \/ ~loc[r].bound)
               => /\ Len(out[r]) >= 1
                  /\ out[r][Len(out[r])] = InternalErrorResponse
                  /\ \A i \in 1..(Len(out[r]) - 1) : out[r][i].kind # "error")

AgentErrorRaised == [kind |-> "raised", error |-> "ValueError: Error invoking agent"]

\* C16: when Agent.invoke raises in on_send_task the call raises to its
\* caller after one call of the Agent, the stored task has state WORKING and
\* no message, the request has made no store update but the WORKING one, its
\* steps up to the Agent call append no artifact, and no state outside
\* SUBMITTED, WORKING, INPUT_REQUIRED, COMPLETED is ever stored.
C16_AgentErrorLeavesWorking ==
  /\ [](\A r \in Slots :
          (req[r].kind = "send" /\ pc[r] = "done" /\ resp[r] = Some(AgentErrorRaised))
            => /\ req[r].params.id \in DOMAIN tasks
               /\ tasks[req[r].params.id].status = [state |-> "WORKING", message |-> None]
               /\ CountOps(r, "agent.invoke") = 1
               /\ \A i \in 1..Len(hist[r]) :
                    hist[r][i].op = "_update_store" => hist[r][i].arg = "WORKING")
  /\ [](\A i \in DOMAIN tasks :
          tasks[i].status.state \in {"SUBMITTED", "WORKING", "INPUT_REQUIRED", "COMPLETED"})
  /\ [][\A r \in Slots :
          (req[r].kind = "send" /\ pc[r] \in {"send_working", "send_notify", "send_invoke"})
            => /\ DOMAIN tasks' = DOMAIN tasks
               /\ \A i \in DOMAIN tasks : Arts(tasks'[i]) = Arts(tasks[i])]_vars

C16_Witness ==
  \E r \in Slots :
    /\ req[r].kind = "send" /\ pc[r] = "done"
    /\ resp[r] = Some(AgentErrorRaised)
    /\ started = 2
    /\ ~Created(r)
    /\ tasks[req[r].params.id].status.state = "WORKING"
    /\ Len(Arts(tasks[req[r].params.id])) = 1
    /\ CountOps(r, "agent.invoke") = 1

\* C17: when on_send_task returns the task for an id with a registered push
\* config, the request has dispatched, after the store update that wrote the
\* Agent's result, a notification that carries the task with that state.
C17_ResultNotified ==
  \A r \in Slots :
    (/\ req[r].kind = "send" /\ pc[r] = "done"
     /\ resp[r][1].kind = "result"
     /\ req[r].params.id \in DOMAIN push_notification_infos)
      => \E i \in 1..Len(hist[r]) :
           /\ hist[r][i].op = "send_push_notification"
           /\ hist[r][i].arg.data.status.state = resp[r][1].task.status.state
           /\ \E j \in 1..(i - 1) :
                /\ hist[r][j].op = "_update_store"
                /\ hist[r][j].arg \in {"COMPLETED", "INPUT_REQUIRED"}

\* the slot's request handed a notification to the Sender, whose delivery failed
Undelivered(r) ==
  \E i \in 1..Len(hist[r]) :
    hist[r][i].op = "send_push_notification" /\ ~hist[r][i].arg.delivered

C19_DeliveryOnlyToRegistered ==
  /\ [](\A i \in DOMAIN push_notification_infos : push_notification_infos[i].url \in Urls)
  /\ [][\A r \in Slots :
          LET id == req[r].params.id
          IN /\ \A i \in (Len(hist[r]) + 1)..Len(hist'[r]) :
                  hist'[r][i].op = "send_push_notification"
                    => /\ id \in DOMAIN push_notification_infos
                       /\ hist'[r][i].arg.url = push_notification_infos[id].url
                       /\ hist'[r][i].arg.data = tasks[id]
             /\ (pc[r] \in {"send_notify", "gen_notify"}
                  /\ id \notin DOMAIN push_notification_infos
                   => /\ hist' = hist
                      /\ UNCHANGED <<tasks, push_notification_infos>>)]_vars

C19_Witness ==
  \E r \in Slots :
    /\ req[r].kind = "send" /\ pc[r] = "send_invoke"
    /\ req[r].params.pushNotification = None
    /\ CountOps(r, "send_push_notification") = 1
    /\ hist[r][Len(hist[r])].arg.url = "u2"
    /\ push_notification_infos[req[r].params.id].url = "u2"
    /\ DOMAIN push_notification_infos = {req[r].params.id}

\* C20: no step changes the state of a stored task whose state is COMPLETED.
C20_CompletedIsTerminal ==
  [][\A i \in DOMAIN tasks :
       tasks[i].status.state = "COMPLETED"
         => /\ i \in DOMAIN tasks'
            /\ tasks'[i].status.state = "COMPLETED"]_vars

OnlyTextRaised == [kind |-> "raised", error |-> "ValueError: Only text parts are supported"]

WorkingNoMessage == [state |-> "WORKING", message |-> None]

\* C21: in on_send_task every call of the Agent comes after the upsert and
\* after the WORKING update that follows it; the WORKING update stores state
\* WORKING with no message whatever the status was; when the request is about
\* to extract the query and call the Agent the stored status is that one and,
\* if a config is registered for the id, the last call made is the
\* notification of that task; a request whose first part is not text ends
\* with the "only text parts" error and the task stored as WORKING.
C21_InvokeAfterWorking ==
  /\ [](\A r \in Slots :
          req[r].kind = "send"
            => /\ \A i \in 1..Len(hist[r]) :
                    hist[r][i].op = "agent.invoke"
                      => \E j \in 1..(i - 1) : \E k \in (j + 1)..(i - 1) :
                           /\ hist[r][j].op = "upsert_task"
                           /\ hist[r][k].op = "_update_store"
                           /\ hist[r][k].arg = "WORKING"
               /\ (pc[r] = "send_invoke"
                     => /\ tasks[req[r].params.id].status = WorkingNoMessage
                        /\ (req[r].params.id \in DOMAIN push_notification_infos
                              => LET c == hist[r][Len(hist[r])]
                                 IN /\ c.op = "send_push_notification"
                                    /\ c.arg.data.status = WorkingNoMessage))
               /\ (pc[r] = "done" /\ resp[r] = Some(OnlyTextRaised)
                     => /\ req[r].params.part.type # "text"
                        /\ tasks[req[r].params.id].status = WorkingNoMessage))
  /\ [][\A r \in Slots :
          (req[r].kind = "send" /\ pc[r] = "send_working")
            => tasks'[req[r].params.id].status = WorkingNoMessage]_vars

C21_Witness ==
  \E r \in Slots :
    /\ req[r].kind = "send" /\ pc[r] = "done"
    /\ resp[r] = Some(OnlyTextRaised)
    /\ started = 2
    /\ ~Created(r)
    /\ tasks[req[r].params.id].status = WorkingNoMessage
    /\ Len(Arts(tasks[req[r].params.id])) = 1
    /\ CountOps(r, "send_push_notification") = 1

\* the on_send_task of slot r has returned the task
Succeeded(r) ==
  /\ req[r].kind = "send" /\ pc[r] = "done"
  /\ resp[r][1].kind = "result"

\* the artifact a successful on_send_task builds from the Agent's result
ResultArtifact(r) ==
  [parts |-> <<[type |-> "text", text |-> loc[r].result[1]]>>,
   index |-> 0, append |-> None]

\* C22: the step in which on_send_task stores the Agent's result and returns
\* appends one artifact, whose only part is the text of the result, after the
\* artifacts already stored, sets the status message to that part and returns
\* the stored task; no other step of a request changes the artifacts of a
\* task; so every task holds as many artifacts as calls on its id have
\* returned it.
C22_OneArtifactPerSuccess ==
  /\ [](\A t \in DOMAIN tasks :
          Len(Arts(tasks[t])) =
            Cardinality({ r \in Slots : Succeeded(r) /\ req[r].params.id = t }))
  /\ [][/\ \A r \in Slots :
             (pc[r] = "store_locked" /\ pc'[r] = "done")
               => LET id == req[r].params.id
                  IN /\ resp'[r] = Some([kind |-> "result", task |-> tasks'[id]])
                     /\ Arts(tasks'[id]) = Arts(tasks[id]) \o <<ResultArtifact(r)>>
                     /\ tasks'[id].status.message =
                          Some([role |-> "agent", parts |-> ResultArtifact(r).parts])
        /\ (\A r \in Slots : pc[r] # "store_locked" \/ pc'[r] # "done")
             => /\ \A t \in DOMAIN tasks : Arts(tasks'[t]) = Arts(tasks[t])
                /\ \A t \in DOMAIN tasks' \ DOMAIN tasks : Arts(tasks'[t]) = <<>>]_vars

C22_Witness ==
  /\ Succeeded("r1") /\ Succeeded("r2")
  /\ req["r1"].params.id = req["r2"].params.id
  /\ loc["r1"].result # loc["r2"].result
  /\ Arts(tasks[req["r1"].params.id]) = <<ResultArtifact("r2"), ResultArtifact("r1")>>
  /\ \E r \in Slots : VerifyFailed(r) = FALSE /\ CountOps(r, "send_push_notification") = 1

\* C23: over synchronous and streaming requests, every step leaves each
\* stored task stored with its former artifacts as a prefix of its new ones;
\* the WORKING update (an empty list) and a streaming update without
\* artifacts (None) leave every sequence of artifacts as it was, the latter
\* leaving the field itself untouched.
C23_ArtifactsAppendOnly ==
  [][/\ \A i \in DOMAIN tasks :
          /\ i \in DOMAIN tasks'
          /\ Len(Arts(tasks[i])) <= Len(Arts(tasks'[i]))
          /\ \A n \in 1..Len(Arts(tasks[i])) : Arts(tasks'[i])[n] = Arts(tasks[i])[n]
     /\ \A r \in Slots :
          /\ (req[r].kind = "send" /\ pc[r] = "send_working"
                => \A i \in DOMAIN tasks : Arts(tasks'[i]) = Arts(tasks[i]))
          /\ (pc[r] = "gen_loop" /\ pc'[r] = "gen_notify" /\ loc[r].artifacts = None
                => \A i \in DOMAIN tasks : tasks'[i].artifacts = tasks[i].artifacts)]_vars

C23_Witness ==
  \E r \in Slots :
    /\ req[r].kind = "subscribe" /\ pc[r] = "done"
    /\ loc[r].end = "exhausted"
    /\ LET a == Arts(tasks[req[r].params.id])
       IN /\ Len(a) = 2
          /\ a[1].append = None
          /\ a[2].append = Some(FALSE)
          /\ a[2].parts[1].type = "data"

InLock(label) == label \in {"working_locked", "store_locked"}

\* C24: at most one request is inside the lock of _update_store; a stored
\* task changes only in the step of the request that holds the lock for its
\* id, a step that writes the status and extends the artifacts together and
\* releases the lock; a task enters the store only while nobody holds the
\* lock; and when two concurrent on_send_task requests on one id have both
\* returned the task, its artifacts are the two requests' artifacts, in
\* either order.
C24_UpdatesUnderLock ==
  /\ [](Cardinality({ r \in Slots : InLock(pc[r]) }) <= 1)
  /\ [](Succeeded("r1") /\ Succeeded("r2") /\ req["r1"].params.id = req["r2"].params.id
          => Arts(tasks[req["r1"].params.id]) \in
               { <<ResultArtifact("r1"), ResultArtifact("r2")>>,
                 <<ResultArtifact("r2"), ResultArtifact("r1")>> })
  /\ [][/\ \A t \in DOMAIN tasks :
             /\ t \in DOMAIN tasks'
             /\ tasks'[t] # tasks[t]
                  => \E r \in Slots :
                       /\ InLock(pc[r]) /\ ~InLock(pc'[r])
                       /\ req[r].params.id = t
                       /\ tasks'[t].status.state =
                            (IF pc[r] = "working_locked" THEN "WORKING"
                             ELSE IF Contains(loc[r].result[1], MISSING_INFO)
                               THEN "INPUT_REQUIRED" ELSE "COMPLETED")
                       /\ Arts(tasks'[t]) =
                            Arts(tasks[t]) \o (IF pc[r] = "working_locked" THEN <<>>
                                               ELSE <<ResultArtifact(r)>>)
        /\ DOMAIN tasks' # DOMAIN tasks => \A r \in Slots : ~InLock(pc[r])]_vars

C24_Witness ==
  /\ Succeeded("r1") /\ Succeeded("r2")
  /\ req["r1"].params.id = req["r2"].params.id
  /\ Created("r1")
  /\ loc["r1"].result # loc["r2"].result
  /\ Arts(tasks[req["r1"].params.id]) = <<ResultArtifact("r2"), ResultArtifact("r1")>>

\* the requests on task id t that have arrived
RequestsOn(t) == { r \in Slots : req[r].kind = "send" /\ req[r].params.id = t }

\* C25: when every on_send_task request that has arrived for a task id has
\* returned the task, the stored state is COMPLETED or INPUT_REQUIRED, the one
\* derived from the result of the request whose final update came last (the
\* one whose artifact is the last), and the stored message is that request's.
C25_LastFinalUpdateWins ==
  \A t \in DOMAIN tasks :
    (RequestsOn(t) # {} /\ \A r \in RequestsOn(t) : Succeeded(r))
      => LET a == Arts(tasks[t])
             last == a[Len(a)]
         IN /\ Len(a) = Cardinality(RequestsOn(t))
            /\ \E r \in RequestsOn(t) : last = ResultArtifact(r)
            /\ tasks[t].status.state =
                 (IF Contains(last.parts[1].text, MISSING_INFO)
                    THEN "INPUT_REQUIRED" ELSE "COMPLETED")
            /\ tasks[t].status.message = Some([role |-> "agent", parts |-> last.parts])

\* both requests on one id have returned the task; r2 was in flight first
\* (it created the task), r1 returned the task as COMPLETED, and the
\* notification r2 sent afterwards shows that task, r1's artifact stored, as
\* WORKING again; r2's final update came last and its state is the stored one
C25_Witness ==
  /\ Succeeded("r1") /\ Succeeded("r2")
  /\ req["r1"].params.id = req["r2"].params.id
  /\ Created("r2")
  /\ resp["r1"][1].task.status.state = "COMPLETED"
  /\ \E i \in 1..Len(hist["r2"]) :
       /\ hist["r2"][i].op = "send_push_notification"
       /\ hist["r2"][i].arg.data.status.state = "WORKING"
       /\ hist["r2"][i].arg.data.artifacts = Some(<<ResultArtifact("r1")>>)
  /\ tasks[req["r1"].params.id].status.state = "INPUT_REQUIRED"
  /\ Arts(tasks[req["r1"].params.id]) = <<ResultArtifact("r1"), ResultArtifact("r2")>>

\* the slot's request had its challenge answered, and it succeeded
VerifyPassed(r) ==
  \E i \in 1..Len(hist[r]) :
    hist[r][i].op = "verify_push_notification_url" /\ hist[r][i].arg.ok

\* C26: no step takes a registered config away; a task id gets a config, or
\* gets another one, only in the step of a request for that id whose
\* challenge, issued in that step against the url of the request's config,
\* succeeds, and the config registered is the request's.
C26_ConfigsVerified ==
  [][/\ DOMAIN push_notification_infos \subseteq DOMAIN push_notification_infos'
     /\ \A i \in DOMAIN push_notification_infos' :
          (\/ i \notin DOMAIN push_notification_infos
           \/ push_notification_infos'[i] # push_notification_infos[i])
            => \E r \in Slots :
                 /\ pc[r] \in {"send_verify", "sub_verify"}
                 /\ req[r].params.id = i
                 /\ push_notification_infos'[i] = req[r].params.pushNotification[1]
                 /\ Len(hist'[r]) = Len(hist[r]) + 1
                 /\ hist'[r][Len(hist'[r])] =
                      [op |-> "verify_push_notification_url",
                       arg |-> [url |-> push_notification_infos'[i].url, ok |-> TRUE]]]_vars

C26_Witness ==
  /\ DOMAIN push_notification_infos = TaskIds
  /\ push_notification_infos["t1"].url # push_notification_infos["t2"].url
  /\ \E r \in Slots :
       /\ req[r].kind = "subscribe" /\ pc[r] = "gen_start"
       /\ VerifyPassed(r)
       /\ push_notification_infos[req[r].params.id] = req[r].params.pushNotification[1]

\* C27 as stated: in every state each task id with a registered push config
\* has a task in the store.
C27_Original == DOMAIN push_notification_infos \subseteq DOMAIN tasks

\* C27 amended: each task id with a registered push config has a task in the
\* store, unless an on_send_task request for that id has registered the
\* config and is about to upsert the task.
C27_ConfigHasTaskUnlessPending ==
  \A i \in DOMAIN push_notification_infos :
    \/ i \in DOMAIN tasks
    \/ \E r \in Slots :
         /\ req[r].kind = "send" /\ pc[r] = "send_upsert"
         /\ req[r].params.id = i
         /\ VerifyPassed(r)

C27_Witness ==
  \E r \in Slots :
    /\ req[r].kind = "send" /\ pc[r] = "send_working"
    /\ VerifyPassed(r)
    /\ Created(r)
    /\ req[r].params.id \in DOMAIN push_notification_infos
    /\ DOMAIN push_notification_infos = DOMAIN tasks
    /\ started = 2

====
